---- MODULE Spec2Model ----
(***************************************************************************)
(* Model of the yatumas Turing-machine simulator: the two-list Tape, the   *)
(* Model object (machine state, head offset, phase, recorded transition)   *)
(* and the Controller's four-phase _step together with the key handler of  *)
(* _run_input_loop.                                                        *)
(*                                                                         *)
(* Python values are rendered as follows.  A list is a sequence whose k-th *)
(* element (1-based) is the Python element of index k-1.  An optional      *)
(* value (X | None) is a sequence of length 0 (None) or 1 (the value).     *)
(* step_interval_in_sec is counted in tenths of a second.                  *)
(***************************************************************************)
EXTENDS Integers, Sequences, FiniteSets, TLC

\* ------------------------------------------------------------------ bounds
MaxInput == 1
MaxTransitions == 1
MaxTrace == 8
MaxHead == 2
MaxInterval == 2
MaxLines == 3
MaxText == 3

\* -------------------------------------------------------------- primitives
\* the shortest interval the 'a' key allows: max(0.1, ...), in tenths of a second
MinInterval == 1
EmptySymbol == "_"
TapeSymbols == {"_", "1"}
States == {"A", "B"}
\* the initial state of the machines tried (the names are interchangeable)
InitialStates == {"A"}

Actions == {"NONE", "LEFT", "RIGHT"}
ActionValue(a) == CASE a = "NONE" -> 0 [] a = "LEFT" -> -1 [] a = "RIGHT" -> 1

Condition(state, symbol) == [state |-> state, symbol |-> symbol]
Conditions == [state : States, symbol : TapeSymbols]
Effects == [new_state : States, new_symbol : TapeSymbols, action : Actions]
Transition(condition, effect) == [condition |-> condition, effect |-> effect]

TransitionTables ==
    UNION { [D -> Effects] :
            D \in { d \in SUBSET Conditions : Cardinality(d) <= MaxTransitions } }

Machines == [initial_state : InitialStates, transition_table : TransitionTables]

None == << >>
Some(x) == << x >>

IDLE == "IDLE"
FOUND_TRANSITION == "FOUND_TRANSITION"
CHANGED_STATE == "CHANGED_STATE"
MOVED == "MOVED"
FINISHED == "FINISHED"
INTERRUPTED == "INTERRUPTED"
SimulationState == {IDLE, FOUND_TRANSITION, CHANGED_STATE, MOVED, FINISHED, INTERRUPTED}
Terminal == {FINISHED, INTERRUPTED}

\* -------------------------------------------------------------------- Tape
\* A tape is the pair of lists [positive, negative].
abs(n) == IF n >= 0 THEN n ELSE -n

\* mutant: negative offsets land in the positive list
GetCoordinates_OneList(index) ==
    IF index >= 0
    THEN [side |-> "positive", frame_index |-> index]
    ELSE [side |-> "positive", frame_index |-> abs(index) - 1]

GetCoordinates(index) ==
    IF index >= 0
    THEN [side |-> "positive", frame_index |-> index]
    ELSE [side |-> "negative", frame_index |-> abs(index) - 1]

\* tape += [EmptySymbol for _ in range(len(tape), index + 1)]
ExpandTape(list, index) ==
    IF index + 1 > Len(list)
    THEN list \o [k \in 1 .. (index + 1 - Len(list)) |-> EmptySymbol]
    ELSE list

\* mutant: the assignment cuts the list off behind the cell
SetItem_Truncates(t, index, symbol) ==
    LET c == GetCoordinates(index)
        l == ExpandTape(t[c.side], c.frame_index)
    IN  [t EXCEPT ![c.side] = SubSeq(l, 1, c.frame_index) \o << symbol >>]

\* Tape.__setitem__: the tape after tape[index] = symbol
SetItem(t, index, symbol) ==
    LET c == GetCoordinates(index)
        l == ExpandTape(t[c.side], c.frame_index)
    IN  [t EXCEPT ![c.side] = [l EXCEPT ![c.frame_index + 1] = symbol]]

\* Tape.__getitem__: the tape after the read (the read expands the list)
\* and the value returned
GetItem(t, index) ==
    LET c == GetCoordinates(index)
        l == ExpandTape(t[c.side], c.frame_index)
    IN  [tape |-> [t EXCEPT ![c.side] = l], value |-> l[c.frame_index + 1]]

\* Tape.__init__: _positive is bound to the list object passed in (no copy)
TapeInit(list) == [positive |-> list, negative |-> << >>]

\* The value tape[index] evaluates to, without the side effect: the
\* element of the list where the list reaches the index, and EmptySymbol,
\* which is what _expand_tape fills in, where it does not
TapeValue(t, index) ==
    LET c == GetCoordinates(index)
    IN  IF c.frame_index < Len(t[c.side])
        THEN t[c.side][c.frame_index + 1]
        ELSE EmptySymbol

\* ------------------------------------------------------------------- state
VARIABLES
    machine,                      \* Model.machine
    machine_input,                \* Model.machine_input (contents of the list object)
    tape,                         \* Model.tape
    machine_state,                \* Model.machine_state
    head_offset,                  \* Model.head_offset
    simulator_state,              \* Model.simulator_state
    transition,                   \* Model.transition
    last_move,                    \* Model.last_move
    last_head_offset,             \* Model.last_head_offset
    default_step_interval_in_sec, \* Model.default_step_interval_in_sec
    step_interval_in_sec,         \* Model.step_interval_in_sec
    \* the parser
    lines,                        \* parse_machine: the argument
    parse,                        \* parse_machine: locals and outcome
    text,                         \* parse_input: the argument
    scan,                         \* parse_input: locals and outcome
    \* history variables, read by no action
    input,                        \* what parse_input returned
    last_call,                    \* the last operation and what it returned
    step_start,                   \* configuration at the last successful lookup
    trace,                        \* tuples observed after each advance of this run
    prev_trace,                   \* trace of the previous run, if it ran to FINISHED
    written,                      \* offsets assigned since the tape was built
    seeded                        \* length of the list the tape was built from

model_vars == << machine, machine_input, tape, machine_state, head_offset,
                 simulator_state, transition, last_move, last_head_offset,
                 default_step_interval_in_sec, step_interval_in_sec >>
history_vars == << input, last_call, step_start, trace, prev_trace, written,
                   seeded >>
parser_vars == << lines, parse, text, scan >>
vars == << model_vars, history_vars, parser_vars >>

Offsets == (0 - MaxHead - 1) .. (MaxHead + 1)
Inputs == UNION { [1 .. n -> TapeSymbols] : n \in 0 .. MaxInput }
Keys == {"s", "a", "q"}

\* a call: the operation, the phase it was made in, what it returned and its
\* arguments; twice marks a reset() that directly follows a reset()
Call(op, phase, ret, index, value) ==
    [op |-> op, phase |-> phase, ret |-> ret, index |-> index, value |-> value,
     twice |-> (op = "reset" /\ last_call.op = "reset")]

\* what the presentation layer can read
Cells(t) == [i \in Offsets |-> TapeValue(t, i)]

\* Model.current_condition / Model.current_symbol (getter): reading the
\* symbol under the head goes through Tape.__getitem__
CurrentSymbol == GetItem(tape, head_offset)
CurrentCondition == Condition(machine_state, CurrentSymbol.value)

\* mutant: the table is searched by machine state alone
FindApplicableTransition_ByState ==
    IF \E c \in DOMAIN machine.transition_table : c.state = machine_state
    THEN LET c == CHOOSE d \in DOMAIN machine.transition_table : d.state = machine_state
         IN  Some(Transition(c, machine.transition_table[c]))
    ELSE None

\* Controller._find_applicable_transition: dict.get(condition, None)
FindApplicableTransition ==
    IF CurrentCondition \in DOMAIN machine.transition_table
    THEN Some(Transition(CurrentCondition, machine.transition_table[CurrentCondition]))
    ELSE None

\* the tuple a run is observed by after an advance()
Observed == << simulator_state, machine_state, head_offset, TapeValue(tape, head_offset) >>

\* ------------------------------------------------------------------- Init
\* no parse_machine / parse_input call in progress
ParserIdle == [pc |-> "idle"]

\* Model.__init__ stores its arguments and calls reset()
InitModel ==
    /\ machine \in Machines
    /\ input \in Inputs
    /\ machine_input = input
    /\ default_step_interval_in_sec = MinInterval    \* started with --interval 0.1
    /\ last_move = None
    /\ last_head_offset = None
    /\ transition = None
    /\ simulator_state = IDLE
    /\ head_offset = 0
    /\ tape = TapeInit(machine_input)
    /\ machine_state = machine.initial_state
    /\ step_interval_in_sec = default_step_interval_in_sec
    /\ last_call = [op |-> "init", phase |-> IDLE, ret |-> TRUE, index |-> 0,
                    value |-> EmptySymbol, twice |-> FALSE]
    /\ step_start = None
    /\ trace = << >>
    /\ prev_trace = None
    /\ written = {}
    /\ seeded = Len(input)

\* the simulation starts after both parsers have returned (yatumas.py main)
Init ==
    /\ InitModel
    /\ lines = << >>
    /\ text = << >>
    /\ parse = ParserIdle
    /\ scan = ParserIdle

\* ---------------------------------------------------------------- actions
\* Tape._positive and Model.machine_input name one list object (tape.py:22,
\* model.py:93), and _expand_tape and __setitem__ change a list in place:
\* the new contents of the positive list are the new contents of
\* machine_input.
BindTape(t) ==
    /\ tape' = t
    /\ machine_input' = t.positive

\* mutant: a missing transition ends the run as INTERRUPTED
StepIdle_Interrupted ==
    /\ simulator_state = IDLE
    /\ BindTape(CurrentSymbol.tape)
    /\ IF FindApplicableTransition = None
       THEN /\ simulator_state' = INTERRUPTED
            /\ transition' = transition
       ELSE /\ transition' = FindApplicableTransition
            /\ simulator_state' = FOUND_TRANSITION
    /\ last_call' = Call("step", simulator_state, TRUE, head_offset, EmptySymbol)
    /\ UNCHANGED << machine, machine_state, head_offset, last_move, last_head_offset,
                    default_step_interval_in_sec, step_interval_in_sec >>

\* mutant: the lookup is a setdefault, a missing condition gets an entry
\* that leaves state and symbol alone
StepIdle_SetDefault ==
    /\ simulator_state = IDLE
    /\ BindTape(CurrentSymbol.tape)
    /\ IF FindApplicableTransition = None
       THEN /\ simulator_state' = FINISHED
            /\ transition' = transition
            /\ machine' = [machine EXCEPT !.transition_table =
                             [c \in DOMAIN @ \cup {CurrentCondition} |->
                                IF c = CurrentCondition
                                THEN [new_state |-> machine_state,
                                      new_symbol |-> CurrentSymbol.value,
                                      action |-> "NONE"]
                                ELSE @[c]]]
       ELSE /\ transition' = FindApplicableTransition
            /\ simulator_state' = FOUND_TRANSITION
            /\ machine' = machine
    /\ last_call' = Call("step", simulator_state, TRUE, head_offset, EmptySymbol)
    /\ UNCHANGED << machine_state, head_offset, last_move, last_head_offset,
                    default_step_interval_in_sec, step_interval_in_sec >>

\* Controller._step, case IDLE
StepIdle ==
    /\ simulator_state = IDLE
    /\ BindTape(CurrentSymbol.tape)
    /\ IF FindApplicableTransition = None
       THEN /\ simulator_state' = FINISHED
            /\ transition' = transition
       ELSE /\ transition' = FindApplicableTransition
            /\ simulator_state' = FOUND_TRANSITION
    /\ last_call' = Call("step", simulator_state, TRUE, head_offset, EmptySymbol)
    /\ UNCHANGED << machine, machine_state, head_offset, last_move, last_head_offset,
                    default_step_interval_in_sec, step_interval_in_sec >>

\* mutant: the commit writes the symbol and keeps the machine state
StepFoundTransition_KeepsState ==
    /\ simulator_state = FOUND_TRANSITION
    /\ machine_state' = machine_state
    /\ BindTape(SetItem(tape, head_offset, transition[1].effect.new_symbol))
    /\ simulator_state' = CHANGED_STATE
    /\ last_call' = Call("step", simulator_state, TRUE, head_offset, EmptySymbol)
    /\ UNCHANGED << machine, head_offset, transition, last_move, last_head_offset,
                    default_step_interval_in_sec, step_interval_in_sec >>

\* mutant: the commit moves the head as well
StepFoundTransition_Moves ==
    /\ simulator_state = FOUND_TRANSITION
    /\ machine_state' = transition[1].effect.new_state
    /\ BindTape(SetItem(tape, head_offset, transition[1].effect.new_symbol))
    /\ abs(head_offset + ActionValue(transition[1].effect.action)) <= MaxHead
    /\ head_offset' = head_offset + ActionValue(transition[1].effect.action)
    /\ simulator_state' = CHANGED_STATE
    /\ last_call' = Call("step", simulator_state, TRUE, head_offset, EmptySymbol)
    /\ UNCHANGED << machine, transition, last_move, last_head_offset,
                    default_step_interval_in_sec, step_interval_in_sec >>

\* Controller._step, case FOUND_TRANSITION
StepFoundTransition ==
    /\ simulator_state = FOUND_TRANSITION
    /\ machine_state' = transition[1].effect.new_state
    /\ BindTape(SetItem(tape, head_offset, transition[1].effect.new_symbol))
    /\ simulator_state' = CHANGED_STATE
    /\ last_call' = Call("step", simulator_state, TRUE, head_offset, EmptySymbol)
    /\ UNCHANGED << machine, head_offset, transition, last_move, last_head_offset,
                    default_step_interval_in_sec, step_interval_in_sec >>

\* mutant: the head moves against the action
MoveHead_Reversed(offset) ==
    /\ last_move' = Some(offset)
    /\ head_offset' = head_offset - offset

\* Model.move_head
MoveHead(offset) ==
    /\ last_move' = Some(offset)
    /\ head_offset' = head_offset + offset

\* mutant: the head move goes straight back to IDLE
StepChangedState_Settles ==
    /\ simulator_state = CHANGED_STATE
    /\ LET move_offset == ActionValue(transition[1].effect.action)
       IN  /\ abs(head_offset + move_offset) <= MaxHead
           /\ MoveHead(move_offset)
    /\ simulator_state' = IDLE
    /\ transition' = None
    /\ last_call' = Call("step", simulator_state, TRUE, head_offset, EmptySymbol)
    /\ UNCHANGED << machine, machine_input, tape, machine_state,
                    last_head_offset, default_step_interval_in_sec,
                    step_interval_in_sec >>

\* Controller._step, case CHANGED_STATE
StepChangedState ==
    /\ simulator_state = CHANGED_STATE
    /\ LET move_offset == ActionValue(transition[1].effect.action)
       IN  /\ abs(head_offset + move_offset) <= MaxHead
           /\ MoveHead(move_offset)
    /\ simulator_state' = MOVED
    /\ last_call' = Call("step", simulator_state, TRUE, head_offset, EmptySymbol)
    /\ UNCHANGED << machine, machine_input, tape, machine_state, transition,
                    last_head_offset, default_step_interval_in_sec,
                    step_interval_in_sec >>

\* mutant: the phase is not set back to IDLE
StepMoved_Stuck ==
    /\ simulator_state = MOVED
    /\ simulator_state' = MOVED
    /\ transition' = None
    /\ last_call' = Call("step", simulator_state, TRUE, head_offset, EmptySymbol)
    /\ UNCHANGED << machine, machine_input, tape, machine_state, head_offset,
                    last_move, last_head_offset, default_step_interval_in_sec,
                    step_interval_in_sec >>

\* mutant: the MOVED case ends the run itself when nothing applies
StepMoved_Finishes ==
    /\ simulator_state = MOVED
    /\ simulator_state' = IF FindApplicableTransition = None THEN FINISHED ELSE IDLE
    /\ transition' = None
    /\ last_call' = Call("step", simulator_state, TRUE, head_offset, EmptySymbol)
    /\ UNCHANGED << machine, machine_input, tape, machine_state, head_offset,
                    last_move, last_head_offset, default_step_interval_in_sec,
                    step_interval_in_sec >>

\* mutant: the recorded transition is not cleared
StepMoved_KeepsTransition ==
    /\ simulator_state = MOVED
    /\ simulator_state' = IDLE
    /\ transition' = transition
    /\ last_call' = Call("step", simulator_state, TRUE, head_offset, EmptySymbol)
    /\ UNCHANGED << machine, machine_input, tape, machine_state, head_offset,
                    last_move, last_head_offset, default_step_interval_in_sec,
                    step_interval_in_sec >>

\* Controller._step, case MOVED
StepMoved ==
    /\ simulator_state = MOVED
    /\ simulator_state' = IDLE
    /\ transition' = None
    /\ last_call' = Call("step", simulator_state, TRUE, head_offset, EmptySymbol)
    /\ UNCHANGED << machine, machine_input, tape, machine_state, head_offset,
                    last_move, last_head_offset, default_step_interval_in_sec,
                    step_interval_in_sec >>

\* mutant: a halted engine still reports work to do
StepHalted_ReturnsTrue ==
    /\ simulator_state \in Terminal
    /\ last_call' = Call("step", simulator_state, TRUE, head_offset, EmptySymbol)
    /\ UNCHANGED model_vars

\* Controller._step, case FINISHED | INTERRUPTED
StepHalted ==
    /\ simulator_state \in Terminal
    /\ last_call' = Call("step", simulator_state, FALSE, head_offset, EmptySymbol)
    /\ UNCHANGED model_vars

\* history kept along an advance()
StepHistory ==
    /\ trace' = IF simulator_state \in Terminal THEN trace ELSE Append(trace, Observed')
    /\ step_start' =
         IF simulator_state = IDLE
         THEN IF Condition(machine_state, TapeValue(tape, head_offset))
                    \in DOMAIN machine.transition_table
              THEN Some([machine_state |-> machine_state,
                         head_offset |-> head_offset,
                         cells |-> Cells(tape),
                         calls |-> 1])
              ELSE None
         ELSE IF step_start # None /\ step_start[1].calls < 4
              THEN Some([step_start[1] EXCEPT !.calls = @ + 1])
              ELSE None
    /\ written' = IF simulator_state = FOUND_TRANSITION
                  THEN written \cup {head_offset}
                  ELSE written
    /\ UNCHANGED << input, prev_trace, seeded >>
    /\ UNCHANGED parser_vars

\* advance(): Controller._step
Step ==
    /\ simulator_state \notin Terminal => Len(trace) < MaxTrace
    /\ \/ StepIdle
       \/ StepFoundTransition
       \/ StepChangedState
       \/ StepMoved
       \/ StepHalted
    /\ StepHistory

\* mutant: 'q' ends the run as FINISHED
KeyPress_Finishes(key) ==
    /\ CASE key = "s" ->
              /\ step_interval_in_sec < MaxInterval
              /\ step_interval_in_sec' = step_interval_in_sec + 1
              /\ UNCHANGED simulator_state
         [] key = "a" ->
              /\ step_interval_in_sec' =
                   IF step_interval_in_sec - 1 > MinInterval
                   THEN step_interval_in_sec - 1
                   ELSE MinInterval
              /\ UNCHANGED simulator_state
         [] key = "q" ->
              /\ simulator_state' = FINISHED
              /\ UNCHANGED step_interval_in_sec
    /\ last_call' = Call("key", simulator_state, TRUE, 0, key)
    /\ step_start' = IF key = "q" THEN None ELSE step_start
    /\ UNCHANGED << machine, machine_input, tape, machine_state, head_offset,
                    transition, last_move, last_head_offset,
                    default_step_interval_in_sec >>
    /\ UNCHANGED << input, trace, prev_trace, written, seeded >>
    /\ UNCHANGED parser_vars

\* Controller._run_input_loop, one key read by inkey
KeyPress(key) ==
    /\ CASE key = "s" ->
              /\ step_interval_in_sec < MaxInterval
              /\ step_interval_in_sec' = step_interval_in_sec + 1
              /\ UNCHANGED simulator_state
         [] key = "a" ->
              /\ step_interval_in_sec' =
                   IF step_interval_in_sec - 1 > MinInterval
                   THEN step_interval_in_sec - 1
                   ELSE MinInterval
              /\ UNCHANGED simulator_state
         [] key = "q" ->
              /\ simulator_state' = INTERRUPTED
              /\ UNCHANGED step_interval_in_sec
    /\ last_call' = Call("key", simulator_state, TRUE, 0, key)
    /\ step_start' = IF key = "q" THEN None ELSE step_start
    /\ UNCHANGED << machine, machine_input, tape, machine_state, head_offset,
                    transition, last_move, last_head_offset,
                    default_step_interval_in_sec >>
    /\ UNCHANGED << input, trace, prev_trace, written, seeded >>
    /\ UNCHANGED parser_vars

\* mutant: the head goes back by the last move instead of to 0
Reset_LastMove ==
    /\ last_move' = None
    /\ last_head_offset' = None
    /\ transition' = None
    /\ simulator_state' = IDLE
    /\ head_offset' = IF last_move = None THEN 0 ELSE last_move[1]
    /\ BindTape(TapeInit(machine_input))
    /\ machine_state' = machine.initial_state
    /\ step_interval_in_sec' = default_step_interval_in_sec
    /\ last_call' = Call("reset", simulator_state, TRUE, 0, EmptySymbol)
    /\ step_start' = None
    /\ prev_trace' = IF simulator_state = FINISHED THEN Some(trace) ELSE None
    /\ trace' = << >>
    /\ written' = {}
    /\ seeded' = Len(machine_input)
    /\ UNCHANGED << machine, default_step_interval_in_sec, input >>
    /\ UNCHANGED parser_vars

\* Model.reset
Reset ==
    /\ last_move' = None
    /\ last_head_offset' = None
    /\ transition' = None
    /\ simulator_state' = IDLE
    /\ head_offset' = 0
    /\ BindTape(TapeInit(machine_input))
    /\ machine_state' = machine.initial_state
    /\ step_interval_in_sec' = default_step_interval_in_sec
    /\ last_call' = Call("reset", simulator_state, TRUE, 0, EmptySymbol)
    /\ step_start' = None
    /\ prev_trace' = IF simulator_state = FINISHED THEN Some(trace) ELSE None
    /\ trace' = << >>
    /\ written' = {}
    /\ seeded' = Len(machine_input)
    /\ UNCHANGED << machine, default_step_interval_in_sec, input >>
    /\ UNCHANGED parser_vars

\* tape[index] = symbol, called on the Tape directly
TapeSet(index, symbol) ==
    /\ BindTape(SetItem(tape, index, symbol))
    /\ last_call' = Call("set", simulator_state, TRUE, index, symbol)
    /\ written' = written \cup {index}
    /\ UNCHANGED << machine, machine_state, head_offset, simulator_state, transition,
                    last_move, last_head_offset, default_step_interval_in_sec,
                    step_interval_in_sec >>
    /\ UNCHANGED << input, step_start, trace, prev_trace, seeded >>
    /\ UNCHANGED parser_vars

\* tape[index], called on the Tape directly
TapeGet(index) ==
    /\ BindTape(GetItem(tape, index).tape)
    /\ last_call' = Call("get", simulator_state, TRUE, index, GetItem(tape, index).value)
    /\ UNCHANGED << machine, machine_state, head_offset, simulator_state, transition,
                    last_move, last_head_offset, default_step_interval_in_sec,
                    step_interval_in_sec >>
    /\ UNCHANGED << input, step_start, trace, prev_trace, written, seeded >>
    /\ UNCHANGED parser_vars

Next ==
    \/ Step
    \/ \E key \in Keys : KeyPress(key)
    \/ Reset

Spec == Init /\ [][Next]_vars

\* run_simulation left to itself: the loop while self._step(), the speed
\* keys between the steps, no 'q'
NextRun ==
    \/ Step
    \/ \E key \in {"s", "a"} : KeyPress(key)

SpecRun == Init /\ [][NextRun]_vars

\* The Tape on its own: a tape built from an input and then read and
\* written at arbitrary offsets.
TapeOffsets == (0 - MaxHead) .. MaxHead

InitTape ==
    /\ Init
    /\ machine.initial_state = "A"
    /\ DOMAIN machine.transition_table = {}

NextTape ==
    \/ \E i \in TapeOffsets, s \in TapeSymbols : TapeSet(i, s)
    \/ \E i \in TapeOffsets : TapeGet(i)

SpecTape == InitTape /\ [][NextTape]_vars

TypeOK ==
    /\ machine \in Machines
    /\ simulator_state \in SimulationState
    /\ machine_state \in States
    /\ head_offset \in Offsets
    /\ machine_input = tape.positive

\* ================================================================= parser
\* A text (a line of the definition, the raw input) is a sequence of
\* characters; a character is a one-character string.  ArabicThree stands
\* for the single character U+0663 (ARABIC-INDIC DIGIT THREE), one of the
\* decimal digits outside 0-9 that \d matches in a str pattern.
NL == "\n"
TAB == "\t"
ArabicThree == "U+0663"

\* \s and str.isspace(), \d, \w and [_*\d] over the characters of the model
SpaceChars == {" ", TAB, NL}
DigitChars == {"0", "1", "2", "3", "4", "5", "6", "7", "8", "9", ArabicThree}
LetterChars == {"A", "B", "L", "R", "N", "X", "x"}
WordChars == LetterChars \cup DigitChars \cup {"_"}
SymbolChars == {"_", "*"} \cup DigitChars

\* a greedy class* from position from: the index of the last character taken
SpanEnd(t, from, class) ==
    CHOOSE e \in (from - 1) .. Len(t) :
        /\ \A i \in from .. e : t[i] \in class
        /\ (e < Len(t) => t[e + 1] \notin class)

\* _is_empty: line == "" or line.isspace()
IsEmpty(line) == line = << >> \/ \A i \in 1 .. Len(line) : line[i] \in SpaceChars

\* str.strip()
Strip(line) ==
    IF \A i \in 1 .. Len(line) : line[i] \in SpaceChars
    THEN << >>
    ELSE LET first == CHOOSE i \in 1 .. Len(line) :
                         /\ line[i] \notin SpaceChars
                         /\ \A j \in 1 .. (i - 1) : line[j] \in SpaceChars
             last == CHOOSE i \in 1 .. Len(line) :
                         /\ line[i] \notin SpaceChars
                         /\ \A j \in (i + 1) .. Len(line) : line[j] \in SpaceChars
         IN  SubSeq(line, first, last)

\* _is_comment: line.strip().startswith("#")
IsComment(line) == Len(Strip(line)) >= 1 /\ Strip(line)[1] = "#"

\* INIT_STATE_REGEXP.fullmatch: (\w+)\s*$ has to take the whole line
FullMatchInitState(line) ==
    LET w == SpanEnd(line, 1, WordChars)
    IN  IF w >= 1 /\ SpanEnd(line, w + 1, SpaceChars) = Len(line)
        THEN Some(SubSeq(line, 1, w))
        ELSE None

\* INIT_STATE_REGEXP.match in the place of fullmatch, without the "$"
ParseInitState_Match(line) ==
    IF SpanEnd(line, 1, WordChars) >= 1
    THEN Some(SubSeq(line, 1, SpanEnd(line, 1, WordChars)))
    ELSE None

\* _parse_init_state
ParseInitState(line) == FullMatchInitState(line)

\* STATE_SYMBOL_REGEXP.match: (\w+)\s*\+\s*([_*\d]) anchored at the start
\* only; what follows the symbol is not looked at.  Giving back characters
\* of a greedy run never helps here (the next item cannot match a character
\* of the run), so the greedy scan is the match.
MatchStateSymbol(t) ==
    LET w == SpanEnd(t, 1, WordChars)
        a == SpanEnd(t, w + 1, SpaceChars)
        b == SpanEnd(t, a + 2, SpaceChars)
    IN  IF /\ w >= 1
           /\ a + 1 <= Len(t)
           /\ t[a + 1] = "+"
           /\ b + 1 <= Len(t)
           /\ t[b + 1] \in SymbolChars
        THEN Some(<< SubSeq(t, 1, w), t[b + 1] >>)
        ELSE None

\* _parse_state_symbol
ParseStateSymbol(t) == MatchStateSymbol(t)

\* _parse_action: ACTION_REGEXP.match, (L|R|N) anchored at the start only
ParseAction(t) ==
    IF Len(t) >= 1 /\ t[1] \in {"L", "R", "N"}
    THEN Some(CASE t[1] = "L" -> "LEFT" [] t[1] = "R" -> "RIGHT" [] t[1] = "N" -> "NONE")
    ELSE None

\* re.split(SEPARATOR, line) with SEPARATOR = \s*\|>\s*: the leftmost match
\* starts at the whitespace run before the first "|>" and takes the
\* whitespace run after it
RECURSIVE SplitSeparator(_)
SplitSeparator(t) ==
    IF \A p \in 1 .. (Len(t) - 1) : ~(t[p] = "|" /\ t[p + 1] = ">")
    THEN << t >>
    ELSE LET p == CHOOSE q \in 1 .. (Len(t) - 1) :
                     /\ t[q] = "|" /\ t[q + 1] = ">"
                     /\ \A r \in 1 .. (q - 1) : ~(t[r] = "|" /\ t[r + 1] = ">")
             s == CHOOSE i \in 1 .. p :
                     /\ \A j \in i .. (p - 1) : t[j] \in SpaceChars
                     /\ (i > 1 => t[i - 1] \notin SpaceChars)
             e == SpanEnd(t, p + 2, SpaceChars)
         IN  << SubSeq(t, 1, s - 1) >> \o SplitSeparator(SubSeq(t, e + 1, Len(t)))

\* _parse_transition: the pair (condition, effect), or None on any failure,
\* the unpacking of a list that has not three elements included (ValueError,
\* caught by except Exception)
ParseTransition(line) ==
    LET transition_components == SplitSeparator(line)
    IN  IF Len(transition_components) # 3
        THEN None
        ELSE LET condition_components == ParseStateSymbol(transition_components[1])
                 new_state_components == ParseStateSymbol(transition_components[2])
                 action == ParseAction(transition_components[3])
             IN  IF condition_components = None
                 THEN None
                 ELSE IF new_state_components = None
                 THEN None
                 ELSE IF action = None
                 THEN None
                 ELSE Some(<< Condition(condition_components[1][1],
                                        condition_components[1][2]),
                              [new_state |-> new_state_components[1][1],
                               new_symbol |-> new_state_components[1][2],
                               action |-> action[1]] >>)

\* numbered_lines: (i + 1, line) for the lines neither empty nor comment
Numbered(ls) == [i \in 1 .. Len(ls) |-> [number |-> i, line |-> ls[i]]]
IsSignificant(entry) == ~IsEmpty(entry.line) /\ ~IsComment(entry.line)
\* the lines numbered after the filter
NumberedLines_Renumbered(ls) ==
    LET kept == SelectSeq(Numbered(ls), IsSignificant)
    IN  [k \in 1 .. Len(kept) |-> [number |-> k, line |-> kept[k].line]]

NumberedLines(ls) == SelectSeq(Numbered(ls), IsSignificant)

\* ------------------------------------------------- the definitions parsed
\* A transition line written out, sep being the whitespace put around the
\* state names, the symbols, "+" and "|>".
Arrow == << "|", ">" >>
Render(f, sep) ==
    f.state \o sep \o << "+" >> \o sep \o << f.symbol >> \o sep \o Arrow \o sep
        \o f.new_state \o sep \o << "+" >> \o sep \o << f.new_symbol >> \o sep
        \o Arrow \o sep \o << f.action >>

Fields(state, symbol, new_state, new_symbol, action) ==
    [state |-> state, symbol |-> symbol, new_state |-> new_state,
     new_symbol |-> new_symbol, action |-> action]

\* three transitions, the first two for the same condition
TransitionFields ==
    { Fields(<< "A" >>, "0", << "A" >>, "1", "R"),
      Fields(<< "A" >>, "0", << "B" >>, "_", "L"),
      Fields(<< "B", "1" >>, "*", << "A" >>, "0", "N") }
Separations == { << >>, << " " >>, << TAB >> }
Indentations == { << >>, << " " >> }

BlankLines == { << NL >> }
CommentLines == { << " ", "#", NL >> }
InitStateLines == { << "A", NL >>, << "B", "1", " " >> }
OtherFirstLines == { << " ", "A", NL >>, << "A", " ", "B", NL >> }
TransitionLines ==
    { Render(f, sep) \o << NL >> :
        f \in { g \in TransitionFields : g.state = << "A" >> },
        sep \in { << >>, << " " >> } }
    \cup { Render(f, << TAB >>) : f \in { g \in TransitionFields : g.action = "N" } }
    \cup { << " " >> \o Render(f, << " " >>) \o << NL >> :
             f \in { g \in TransitionFields : g.action = "N" } }
OtherLines ==
    { << "A", "+", "0", "|", ">", "A", "+", "1", NL >>,
      << "A", "+", "0", "|", ">", "A", "+", "1", "|", ">", "R", "|", ">", "L", NL >>,
      << "B", "+", "1", "|", ">", "A", "+", "1", "x", "|", ">", "R", NL >>,
      << "B", "+", "0", "|", ">", "A", "+", "1", "|", ">", "R", "N", NL >>,
      << "A", "+", "0", "|", ">", "A", "+", "1", "|", ">", "X", NL >>,
      << "A", " ", "0", "|", ">", "A", "+", "1", "|", ">", "R", NL >>,
      << "A", "+", "x", "|", ">", "A", "+", "1", "|", ">", "R", NL >> }

\* what f.readlines() may hand to parse_machine
Lines ==
    BlankLines \cup CommentLines \cup InitStateLines \cup OtherFirstLines
        \cup TransitionLines \cup OtherLines
Definitions == UNION { [1 .. n -> Lines] : n \in 0 .. MaxLines }

\* the characters of the command-line input, and the inputs
InputChars == {"0", "_", "*", "x", " ", ArabicThree}
Texts == UNION { [1 .. n -> InputChars] : n \in 0 .. MaxText }

\* ------------------------------------------------------------ parse_machine
INVALID_SYMBOL == "INVALID_SYMBOL"
INVALID_INIT_STATE == "INVALID_INIT_STATE"
INVALID_TRANSITION == "INVALID_TRANSITION"
DUPLICATED_TRANSITION == "DUPLICATED_TRANSITION"

ParsingError(error_type, index) ==
    [exception |-> "ParsingError", error_type |-> error_type, index |-> index]
\* numbered_lines[0] of an empty list
IndexError == [exception |-> "IndexError"]

\* transition_table[condition] = effect
Insert(table, condition, effect) ==
    [c \in DOMAIN table \cup {condition} |-> IF c = condition THEN effect ELSE table[c]]

\* parse_machine entered: k is the position in numbered_lines of the line
\* the loop takes next
ParserEntered ==
    [pc |-> "start", k |-> 1, init_state |-> None, transition_table |-> << >>,
     raised |-> None, returned |-> None]

Raise(exception) == [parse EXCEPT !.pc = "raised", !.raised = Some(exception)]

\* lines 186-195: the filter, the first significant line, the initial state
ParseMachineInitState ==
    /\ parse.pc = "start"
    /\ LET numbered_lines == NumberedLines(lines)
       IN  IF numbered_lines = << >>
           THEN parse' = Raise(IndexError)
           ELSE LET init_state == ParseInitState(numbered_lines[1].line)
                IN  IF init_state = None
                    THEN parse' = Raise(ParsingError(INVALID_INIT_STATE,
                                                     numbered_lines[1].number))
                    ELSE parse' = [parse EXCEPT !.pc = "loop", !.k = 2,
                                                !.init_state = init_state]
    /\ UNCHANGED << lines, text, scan >>
    /\ UNCHANGED << model_vars, history_vars >>

\* the loop without the membership test of line 203
ParseMachineTransition_Overwrites ==
    /\ parse.pc = "loop"
    /\ parse.k <= Len(NumberedLines(lines))
    /\ LET i == NumberedLines(lines)[parse.k].number
           line == NumberedLines(lines)[parse.k].line
           parsed == ParseTransition(line)
       IN  IF parsed = None
           THEN parse' = Raise(ParsingError(INVALID_TRANSITION, i))
           ELSE parse' = [parse EXCEPT
                            !.k = @ + 1,
                            !.transition_table = Insert(@, parsed[1][1], parsed[1][2])]
    /\ UNCHANGED << lines, text, scan >>
    /\ UNCHANGED << model_vars, history_vars >>

\* lines 197-205: one turn of the loop over transition_lines
ParseMachineTransition ==
    /\ parse.pc = "loop"
    /\ parse.k <= Len(NumberedLines(lines))
    /\ LET i == NumberedLines(lines)[parse.k].number
           line == NumberedLines(lines)[parse.k].line
           parsed == ParseTransition(line)
       IN  IF parsed = None
           THEN parse' = Raise(ParsingError(INVALID_TRANSITION, i))
           ELSE LET condition == parsed[1][1]
                    effect == parsed[1][2]
                IN  IF condition \in DOMAIN parse.transition_table
                    THEN parse' = Raise(ParsingError(DUPLICATED_TRANSITION, i))
                    ELSE parse' = [parse EXCEPT
                                     !.k = @ + 1,
                                     !.transition_table = Insert(@, condition, effect)]
    /\ UNCHANGED << lines, text, scan >>
    /\ UNCHANGED << model_vars, history_vars >>

\* line 227: return Machine(initial_state=init_state, transition_table=...)
ParseMachineReturn ==
    /\ parse.pc = "loop"
    /\ parse.k > Len(NumberedLines(lines))
    /\ parse' = [parse EXCEPT
                   !.pc = "returned",
                   !.returned = Some([initial_state |-> parse.init_state[1],
                                      transition_table |-> parse.transition_table])]
    /\ UNCHANGED << lines, text, scan >>
    /\ UNCHANGED << model_vars, history_vars >>

\* the simulator is not built before both parsers have returned: its
\* variables rest at the values of an empty machine on an empty input
Unbuilt ==
    /\ InitModel
    /\ machine.initial_state = "A"
    /\ DOMAIN machine.transition_table = {}
    /\ input = << >>

InitParse ==
    /\ Unbuilt
    /\ lines \in Definitions
    /\ parse = ParserEntered
    /\ text = << >>
    /\ scan = ParserIdle

NextParse ==
    \/ ParseMachineInitState
    \/ ParseMachineTransition
    \/ ParseMachineReturn

SpecParse == InitParse /\ [][NextParse]_vars

\* -------------------------------------------------------------- parse_input
\* parse_input entered: i characters of text have been taken
ScannerEntered ==
    [pc |-> "loop", i |-> 0, machine_input |-> << >>, raised |-> None,
     returned |-> None]

\* lines 247-251: one turn of the loop; INPUT_SYMBOL_REGEXP.fullmatch(c) on
\* the one-character string c
ParseInputSymbol ==
    /\ scan.pc = "loop"
    /\ scan.i < Len(text)
    /\ LET c == text[scan.i + 1]
       IN  IF c \notin SymbolChars
           THEN scan' = [scan EXCEPT
                           !.pc = "raised",
                           !.raised = Some(ParsingError(INVALID_SYMBOL, scan.i))]
           ELSE scan' = [scan EXCEPT
                           !.i = @ + 1,
                           !.machine_input = Append(@, c)]
    /\ UNCHANGED << lines, parse, text >>
    /\ UNCHANGED << model_vars, history_vars >>

\* line 253: return machine_input
ParseInputReturn ==
    /\ scan.pc = "loop"
    /\ scan.i = Len(text)
    /\ scan' = [scan EXCEPT !.pc = "returned", !.returned = Some(scan.machine_input)]
    /\ UNCHANGED << lines, parse, text >>
    /\ UNCHANGED << model_vars, history_vars >>

InitInput ==
    /\ Unbuilt
    /\ lines = << >>
    /\ parse = ParserIdle
    /\ text \in Texts
    /\ scan = ScannerEntered

NextInput ==
    \/ ParseInputSymbol
    \/ ParseInputReturn

SpecInput == InitInput /\ [][NextInput]_vars

\* ------------------------------------------------------------- properties
IsStep == last_call'.op = "step"
IsInterrupt == last_call'.op = "key" /\ last_call'.value = "q"
HasEntry == Condition(machine_state, TapeValue(tape, head_offset))
              \in DOMAIN machine.transition_table
Entry == machine.transition_table[Condition(machine_state, TapeValue(tape, head_offset))]
Visible == << simulator_state, machine_state, head_offset, transition, Cells(tape) >>

\* C1: an advance() moves the phase only along IDLE -> FOUND_TRANSITION ->
\* CHANGED_STATE -> MOVED -> IDLE or IDLE -> FINISHED; from IDLE it goes to
\* FOUND_TRANSITION exactly when the table has an entry for the current
\* (machine state, symbol under head), to FINISHED otherwise; in a terminal
\* phase it leaves the phase alone.
C1_PhaseOrder ==
    [][IsStep =>
         simulator_state' =
           CASE simulator_state = IDLE ->
                  IF HasEntry THEN FOUND_TRANSITION ELSE FINISHED
             [] simulator_state = FOUND_TRANSITION -> CHANGED_STATE
             [] simulator_state = CHANGED_STATE -> MOVED
             [] simulator_state = MOVED -> IDLE
             [] OTHER -> simulator_state]_vars

\* C1 witness: an advance() taken in MOVED has closed the cycle at IDLE
C1_Witness ==
    /\ last_call.op = "step"
    /\ last_call.phase = MOVED
    /\ simulator_state = IDLE

\* C2: four advance() calls from IDLE with an entry (q, tape[h]) -> (q', s', a)
\* end in IDLE with machine state q', s' at the old head offset h, every
\* other cell as before, the head at h + a, a in {-1, 0, 1}, and no
\* transition recorded.
C2_LogicalStep ==
    (step_start # None /\ step_start[1].calls = 4) =>
       LET q == step_start[1].machine_state
           h == step_start[1].head_offset
           before == step_start[1].cells
           effect == machine.transition_table[Condition(q, before[h])]
           a == ActionValue(effect.action)
       IN  /\ simulator_state = IDLE
           /\ machine_state = effect.new_state
           /\ TapeValue(tape, h) = effect.new_symbol
           /\ \A j \in Offsets \ {h} : TapeValue(tape, j) = before[j]
           /\ head_offset = h + a
           /\ a \in {-1, 0, 1}
           /\ transition = None

\* C2 witness: a logical step that started on a negative offset, rewrote
\* the cell there and moved further left
C2_Witness ==
    /\ step_start # None
    /\ step_start[1].calls = 4
    /\ step_start[1].head_offset = -1
    /\ head_offset = -2
    /\ TapeValue(tape, -1) # step_start[1].cells[-1]

\* C3: an advance() in IDLE with no entry for the current (state, symbol)
\* goes to FINISHED, and an advance() in FINISHED returns false and leaves
\* machine state, head offset, every cell, the recorded transition and the
\* phase as they were.
C3_Halting ==
    [][IsStep =>
         /\ (simulator_state = IDLE /\ ~HasEntry) => simulator_state' = FINISHED
         /\ simulator_state = FINISHED =>
               /\ last_call'.ret = FALSE
               /\ Visible' = Visible]_vars

\* C3 witness: advance() was called again after the run finished
C3_Witness ==
    /\ last_call.op = "step"
    /\ last_call.phase = FINISHED
    /\ simulator_state = FINISHED

\* C4 (as claimed): once FINISHED or INTERRUPTED, no advance() and no key
\* changes the phase.
C4_TerminalAbsorbing ==
    [][(simulator_state \in Terminal /\ last_call'.op \in {"step", "key"})
         => simulator_state' = simulator_state]_vars

\* C5 (as claimed): after reset() the head is at 0, the phase is IDLE, no
\* transition is recorded, the machine state is the initial state and the
\* tape reads the original input at 0..n-1 and EMPTY elsewhere.
C5_ResetRestores ==
    last_call.op = "reset" =>
       /\ head_offset = 0
       /\ simulator_state = IDLE
       /\ transition = None
       /\ machine_state = machine.initial_state
       /\ \A j \in Offsets :
             TapeValue(tape, j) =
               IF j >= 0 /\ j < Len(input) THEN input[j + 1] ELSE EmptySymbol

\* C6 (as claimed): a run to FINISHED after a reset() that followed a run to
\* FINISHED shows the same sequence of (phase, state, head, symbol) tuples.
C6_Determinism ==
    (prev_trace # None /\ simulator_state = FINISHED) => trace = prev_trace[1]

\* C7: 'q' pressed in a non-terminal phase sets the phase to INTERRUPTED and
\* leaves machine state, head offset and every cell alone; the advance()
\* that follows returns false and commits and moves nothing.
C7_Interrupt ==
    [][/\ (IsInterrupt /\ simulator_state \notin Terminal) =>
             /\ simulator_state' = INTERRUPTED
             /\ machine_state' = machine_state
             /\ head_offset' = head_offset
             /\ Cells(tape') = Cells(tape)
       /\ (IsStep /\ last_call.op = "key" /\ last_call.value = "q"
                  /\ last_call.phase \notin Terminal) =>
             /\ last_call'.ret = FALSE
             /\ simulator_state' = INTERRUPTED
             /\ machine_state' = machine_state
             /\ head_offset' = head_offset
             /\ Cells(tape') = Cells(tape)]_vars

\* C7 witness: advance() called right after 'q' cut a logical step between
\* the commit and the head move
C7_Witness ==
    /\ last_call.op = "step"
    /\ last_call.phase = INTERRUPTED
    /\ transition # None
    /\ last_move = None
    /\ written # {}

\* C8: advance() returns false when called in FINISHED or INTERRUPTED and
\* true when called in IDLE, FOUND_TRANSITION, CHANGED_STATE or MOVED.
C8_ReturnValue ==
    [][IsStep => (last_call'.ret = (simulator_state \notin Terminal))]_vars

\* C8 witness: the advance() that found no transition was made in IDLE and
\* returned true
C8_Witness ==
    /\ last_call.op = "step"
    /\ last_call.phase = IDLE
    /\ last_call.ret = TRUE
    /\ simulator_state = FINISHED

\* C9: get(i) right after set(i, s) returns s, for offsets of either sign,
\* and every offset neither seeded by the input nor written reads EMPTY,
\* whatever reads and writes of other offsets came before.
C9_TapeRoundTrip ==
    /\ [](\A j \in Offsets :
            (j \notin written /\ ~(j >= 0 /\ j < seeded)) =>
               /\ TapeValue(tape, j) = EmptySymbol
               /\ (last_call.op = "get" /\ last_call.index = j)
                     => last_call.value = EmptySymbol)
    /\ [][(last_call.op = "set" /\ last_call'.op = "get"
              /\ last_call'.index = last_call.index)
            => last_call'.value = last_call.value]_vars

\* C9 witness: a non-blank symbol written at a negative offset was read back
\* while offset 0 was never seeded nor written
C9_Witness ==
    /\ last_call.op = "get"
    /\ last_call.index = -2
    /\ last_call.value # EmptySymbol
    /\ 0 \notin written
    /\ seeded = 0

\* C10: a reset() called right after a reset() leaves phase, machine state,
\* head offset, recorded transition and every cell as the first one left
\* them.
C10_ResetIdempotent ==
    [][(last_call.op = "reset" /\ last_call'.op = "reset") => Visible' = Visible]_vars

\* C10 witness: two reset() calls in a row after a run that wrote the tape
C10_Witness ==
    /\ last_call.op = "reset"
    /\ last_call.twice
    /\ machine_input # input

\* ------------------------------------------------------ parser properties
\* The definition language as it is described.  A transition line splits on
\* "|>" into exactly three parts; each of the first two is 'token + symbol',
\* one symbol of the alphabet { _ , * , 0-9 } and nothing but whitespace
\* around the three; the third is one of L, R, N.  Whitespace around the
\* parts is ignored.
Alphabet == {"_", "*", "0", "1", "2", "3", "4", "5", "6", "7", "8", "9"}

RECURSIVE SplitArrow(_)
SplitArrow(t) ==
    IF \A p \in 1 .. (Len(t) - 1) : SubSeq(t, p, p + 1) # Arrow
    THEN << t >>
    ELSE LET p == CHOOSE q \in 1 .. (Len(t) - 1) :
                     /\ SubSeq(t, q, q + 1) = Arrow
                     /\ \A r \in 1 .. (q - 1) : SubSeq(t, r, r + 1) # Arrow
         IN  << SubSeq(t, 1, p - 1) >> \o SplitArrow(SubSeq(t, p + 2, Len(t)))

\* where the token ends and where "+" stands in a part 'token + symbol'
Shape(s) ==
    { << w, q >> \in (1 .. Len(s)) \X (1 .. Len(s)) :
        /\ w < q /\ q < Len(s)
        /\ \A i \in 1 .. w : s[i] \in WordChars
        /\ \A i \in (w + 1) .. (q - 1) : s[i] \in SpaceChars
        /\ s[q] = "+"
        /\ \A i \in (q + 1) .. (Len(s) - 1) : s[i] \in SpaceChars
        /\ s[Len(s)] \in Alphabet }
IsStateSymbol(part) == Shape(Strip(part)) # {}
TokenOf(part) == SubSeq(Strip(part), 1, (CHOOSE x \in Shape(Strip(part)) : TRUE)[1])
SymbolOf(part) == Strip(part)[Len(Strip(part))]
IsActionCode(part) == Strip(part) \in { << "L" >>, << "R" >>, << "N" >> }
DisplacementOf(code) == CASE code = "L" -> -1 [] code = "R" -> 1 [] code = "N" -> 0

IsTransitionLine(line) ==
    /\ Len(SplitArrow(line)) = 3
    /\ IsStateSymbol(SplitArrow(line)[1])
    /\ IsStateSymbol(SplitArrow(line)[2])
    /\ IsActionCode(SplitArrow(line)[3])
ConditionOf(line) ==
    Condition(TokenOf(SplitArrow(line)[1]), SymbolOf(SplitArrow(line)[1]))
NewStateOf(line) == TokenOf(SplitArrow(line)[2])
NewSymbolOf(line) == SymbolOf(SplitArrow(line)[2])
ActionCodeOf(line) == Strip(SplitArrow(line)[3])[1]

\* the first line of a definition: one word token, then whitespace only
IsInitStateLine(line) ==
    \E w \in 1 .. Len(line) :
        /\ \A i \in 1 .. w : line[i] \in WordChars
        /\ \A i \in (w + 1) .. Len(line) : line[i] \in SpaceChars

\* the significant lines of the definition, by their original numbers
Significant == { i \in 1 .. Len(lines) : ~IsEmpty(lines[i]) /\ ~IsComment(lines[i]) }
FirstSignificant == CHOOSE i \in Significant : \A j \in Significant : i <= j
TransitionNumbers == { i \in Significant : i # FirstSignificant }

ParseDone == parse.pc \in {"raised", "returned"}
ParseFailed == parse.pc = "raised" /\ parse.raised[1].exception = "ParsingError"
ParseFailedWith(error_type, index) ==
    parse.pc = "raised" /\ parse.raised = Some(ParsingError(error_type, index))

\* C11: when two transition lines are written for the same (state, symbol)
\* condition, parse_machine fails, and unless an earlier line has already
\* failed it fails with DUPLICATED_TRANSITION at the 1-based number of the
\* later of the two lines, the table still holding the effect of the earlier.
C11_DuplicateRejected ==
    ParseDone =>
        \A i \in TransitionNumbers : \A j \in TransitionNumbers :
            ( /\ j < i
              /\ IsTransitionLine(lines[j])
              /\ IsTransitionLine(lines[i])
              /\ ConditionOf(lines[j]) = ConditionOf(lines[i]) ) =>
                /\ ParseFailed
                /\ parse.raised[1].index <= i
                /\ parse.raised[1].index = i =>
                       /\ parse.raised[1].error_type = DUPLICATED_TRANSITION
                       /\ ConditionOf(lines[j]) \in DOMAIN parse.transition_table
                       /\ parse.transition_table[ConditionOf(lines[j])].new_state
                              = NewStateOf(lines[j])

\* C12: on a definition without a significant line (no line, or blank and
\* comment lines only) parse_machine fails with INVALID_INIT_STATE, index 1.
C12_NoSignificantLine ==
    (ParseDone /\ Significant = {}) => ParseFailedWith(INVALID_INIT_STATE, 1)

\* the error a significant line is in, if it is in one: the first is not an
\* initial state, a later one is not a transition line, or it repeats the
\* condition of a transition line above it
ErrorOf(i) ==
    IF i = FirstSignificant
    THEN IF IsInitStateLine(lines[i])
         THEN None
         ELSE Some(ParsingError(INVALID_INIT_STATE, i))
    ELSE IF ~IsTransitionLine(lines[i])
         THEN Some(ParsingError(INVALID_TRANSITION, i))
         ELSE IF \E j \in TransitionNumbers :
                     /\ j < i
                     /\ IsTransitionLine(lines[j])
                     /\ ConditionOf(lines[j]) = ConditionOf(lines[i])
              THEN Some(ParsingError(DUPLICATED_TRANSITION, i))
              ELSE None

\* C13: parse_machine reports the first error and stops: when a significant
\* line is in error, no Machine is returned and the error raised has the
\* kind and the number of the lowest-numbered line in error, whatever the
\* lines below it contain.
C13_FirstError ==
    ParseDone =>
        \A i \in Significant :
            (ErrorOf(i) # None /\ \A j \in Significant : j < i => ErrorOf(j) = None)
                => (parse.pc = "raised" /\ parse.raised = ErrorOf(i))

\* C14: the index of a ParsingError of parse_machine is the position in the
\* original sequence of the line it was raised for, the k-th significant
\* line: the blank and comment lines above it are skipped and counted.
\* INVALID_INIT_STATE belongs to the first significant line and to no other.
C14_OriginalNumber ==
    ParseFailed =>
        /\ parse.raised[1].index \in Significant
        /\ Cardinality({ m \in Significant : m <= parse.raised[1].index }) = parse.k
        /\ (parse.raised[1].error_type = INVALID_INIT_STATE)
               <=> (parse.raised[1].index = FirstSignificant)

\* a malformed transition on line 3, under an initial state and a comment
\* or blank line
C14_Witness ==
    /\ Len(lines) >= 3
    /\ IsEmpty(lines[2]) \/ IsComment(lines[2])
    /\ parse.k = 2
    /\ ParseFailedWith(INVALID_TRANSITION, 3)

ParseReturned == parse.pc = "returned"

\* C15: the Machine parse_machine returns has the token of the first
\* significant line as its initial state and as many entries as there are
\* transition lines, each transition line's condition mapped to its new
\* state, new symbol and action, L being LEFT (-1), R RIGHT (+1), N NONE (0).
C15_MachineReturned ==
    ParseReturned =>
        LET returned == parse.returned[1]
            first == lines[FirstSignificant]
        IN  /\ \E w \in 1 .. Len(first) :
                  /\ returned.initial_state = SubSeq(first, 1, w)
                  /\ \A c \in (w + 1) .. Len(first) : first[c] \in SpaceChars
            /\ Cardinality(DOMAIN returned.transition_table)
                   = Cardinality(TransitionNumbers)
            /\ \A i \in TransitionNumbers :
                   IsTransitionLine(lines[i]) =>
                       /\ ConditionOf(lines[i]) \in DOMAIN returned.transition_table
                       /\ LET effect == returned.transition_table[ConditionOf(lines[i])]
                          IN  /\ effect.new_state = NewStateOf(lines[i])
                              /\ effect.new_symbol = NewSymbolOf(lines[i])
                              /\ effect.action =
                                     (CASE ActionCodeOf(lines[i]) = "L" -> "LEFT"
                                        [] ActionCodeOf(lines[i]) = "R" -> "RIGHT"
                                        [] ActionCodeOf(lines[i]) = "N" -> "NONE")
                              /\ ActionValue(effect.action)
                                     = DisplacementOf(ActionCodeOf(lines[i]))

\* a Machine of two entries, one of them moving the head
C15_Witness ==
    /\ ParseReturned
    /\ Cardinality(DOMAIN parse.returned[1].transition_table) = 2
    /\ \A i \in TransitionNumbers : IsTransitionLine(lines[i])
    /\ \E c \in DOMAIN parse.returned[1].transition_table :
           ActionValue(parse.returned[1].transition_table[c].action) # 0

ScanDone == scan.pc \in {"raised", "returned"}
Illegal == { i \in 1 .. Len(text) : text[i] \notin Alphabet }

\* C16: parse_input succeeds exactly when every character of the text is in
\* the alphabet { _ , * , 0-9 }, and then returns as many symbols as the text
\* has characters, the k-th symbol being the k-th character.
C16_InputAlphabet ==
    ScanDone =>
        /\ (scan.pc = "returned") <=> (Illegal = {})
        /\ scan.pc = "returned" =>
               /\ Len(scan.returned[1]) = Len(text)
               /\ \A k \in 1 .. Len(text) : scan.returned[1][k] = text[k]

\* C17: on a text with an illegal character parse_input fails with
\* INVALID_SYMBOL at the 0-based position of the first illegal character
\* and returns no sequence.
C17_FirstIllegal ==
    (ScanDone /\ Illegal # {}) =>
        /\ scan.raised = Some(ParsingError(INVALID_SYMBOL,
                                  (CHOOSE i \in Illegal : \A j \in Illegal : i <= j) - 1))
        /\ scan.returned = None

\* line i is taken up by the loop: no line above it has raised
TakenUp(i) == ParseReturned \/ (ParseFailed /\ parse.raised[1].index >= i)
PassedBy(i) == ParseReturned \/ (ParseFailed /\ parse.raised[1].index > i)

\* C18: a line in the place of a transition that is not a transition line as
\* described (not three parts, a first or second part that is not exactly
\* 'token + symbol', a third part that is not exactly L, R or N) is rejected
\* with INVALID_TRANSITION at its number.
C18_MalformedRejected ==
    ParseDone =>
        \A i \in TransitionNumbers :
            (TakenUp(i) /\ ~IsTransitionLine(lines[i]))
                => ParseFailedWith(INVALID_TRANSITION, i)

\* C19: a transition line as described is accepted whatever whitespace
\* stands around its names, symbols, "+" and "|>", before the first name
\* included, and yields the condition and the effect written on it.
C19_WhitespaceInsignificant ==
    ParseDone =>
        \A i \in TransitionNumbers :
            (TakenUp(i) /\ IsTransitionLine(lines[i])) =>
                /\ ~ParseFailedWith(INVALID_TRANSITION, i)
                /\ PassedBy(i) =>
                       /\ ConditionOf(lines[i]) \in DOMAIN parse.transition_table
                       /\ parse.transition_table[ConditionOf(lines[i])].new_state
                              = NewStateOf(lines[i])
                       /\ parse.transition_table[ConditionOf(lines[i])].new_symbol
                              = NewSymbolOf(lines[i])

\* C20: the first significant line is taken as the initial state exactly
\* when it is one word token followed by whitespace only; any other first
\* significant line fails with INVALID_INIT_STATE at its 1-based number.
C20_InitState ==
    (parse.pc \in {"loop", "raised", "returned"} /\ Significant # {}) =>
        IF IsInitStateLine(lines[FirstSignificant])
        THEN /\ parse.init_state # None
             /\ ~ParseFailedWith(INVALID_INIT_STATE, FirstSignificant)
        ELSE ParseFailedWith(INVALID_INIT_STATE, FirstSignificant)

\* two tokens on the first significant line, which is line 2
C20_Witness ==
    /\ ParseFailedWith(INVALID_INIT_STATE, 2)
    /\ Len(lines[2]) >= 3
    /\ lines[2][1] \in WordChars
    /\ lines[2][2] \in SpaceChars
    /\ lines[2][3] \in WordChars

\* ------------------------------------------------ engine properties, II
\* C21: in every state reached by advance(), keys and reset() in any order,
\* a transition is recorded whenever the phase is FOUND_TRANSITION,
\* CHANGED_STATE or MOVED (so that the advance() of these phases finds the
\* effect it reads), and none is recorded whenever the phase is IDLE or
\* FINISHED.
C21_TransitionRecorded ==
    /\ simulator_state \in {FOUND_TRANSITION, CHANGED_STATE, MOVED} => transition # None
    /\ simulator_state \in {IDLE, FINISHED} => transition = None

\* C21 witness: in the run after a reset() of a finished run, the phase is
\* MOVED and the transition is still recorded
C21_Witness ==
    /\ prev_trace # None
    /\ simulator_state = MOVED
    /\ transition # None

\* C22 (as claimed): a transition is recorded in no phase other than
\* FOUND_TRANSITION, CHANGED_STATE and MOVED, INTERRUPTED included.
C22_TransitionOnlyInStep ==
    simulator_state \in {IDLE, FINISHED, INTERRUPTED} => transition = None

\* C23: an advance() changes the machine state and the tape only when taken
\* in FOUND_TRANSITION, and there no cell but the one under the head; it
\* changes the head offset only when taken in CHANGED_STATE; taken in IDLE
\* or MOVED it changes neither the machine state, nor the head offset, nor
\* the value read at any offset.
C23_PhaseFrame ==
    [][IsStep =>
         /\ simulator_state # FOUND_TRANSITION =>
               /\ machine_state' = machine_state
               /\ Cells(tape') = Cells(tape)
         /\ simulator_state = FOUND_TRANSITION =>
               \A j \in Offsets \ {head_offset} :
                   TapeValue(tape', j) = TapeValue(tape, j)
         /\ simulator_state # CHANGED_STATE => head_offset' = head_offset]_vars

\* C23 witness: the commit has changed the machine state and the cell under
\* the head and has left the head where the lookup found it
C23_Witness ==
    /\ simulator_state = CHANGED_STATE
    /\ step_start # None
    /\ step_start[1].calls = 2
    /\ machine_state # step_start[1].machine_state
    /\ TapeValue(tape, head_offset) # step_start[1].cells[head_offset]
    /\ head_offset = step_start[1].head_offset

\* C24 (as claimed): the list parse_input returned, kept as
\* Model.machine_input, has the length and the symbols it was handed over
\* with, whatever advance() calls and tape reads and writes have been made.
C24_InputUntouched ==
    /\ Len(machine_input) = Len(input)
    /\ \A k \in 1 .. Len(input) : machine_input[k] = input[k]

\* C25: set(i, s) changes the value read at offset i only (the cells of the
\* other sign included: offset i < 0 lives at index -i - 1 of the negative
\* list, offset i >= 0 at index i of the positive list), and get(i), which
\* may extend a list with EMPTY cells, changes the value read at no offset.
C25_TapeFrame ==
    /\ [](\A j \in Offsets :
            /\ (j >= 0 /\ j < Len(tape.positive))
                   => TapeValue(tape, j) = tape.positive[j + 1]
            /\ (j < 0 /\ (0 - j) - 1 < Len(tape.negative))
                   => TapeValue(tape, j) = tape.negative[((0 - j) - 1) + 1])
    /\ [][\/ tape' = tape
          \/ /\ last_call'.op = "set" =>
                   \A j \in Offsets \ {last_call'.index} :
                       TapeValue(tape', j) = TapeValue(tape, j)
             /\ last_call'.op = "get" =>
                   \A j \in Offsets : TapeValue(tape', j) = TapeValue(tape, j)]_vars

\* C25 witness: offset -1 was set to a non-blank symbol after offset 0 had
\* been set to EMPTY, and offset 0 still reads EMPTY
C25_Witness ==
    /\ last_call.op = "set"
    /\ last_call.index = -1
    /\ last_call.value # EmptySymbol
    /\ 0 \in written
    /\ TapeValue(tape, 0) = EmptySymbol
    /\ TapeValue(tape, 1) # EmptySymbol

\* C26: no advance(), key or reset() adds, removes or changes an entry of
\* the transition table or changes the initial state of the Machine.
C26_MachineReadOnly ==
    [][/\ machine'.initial_state = machine.initial_state
       /\ DOMAIN machine'.transition_table = DOMAIN machine.transition_table
       /\ \A c \in DOMAIN machine.transition_table :
              machine'.transition_table[c] = machine.transition_table[c]]_vars

\* C26 witness: a machine with an entry has finished a run, has been reset
\* and has been interrupted after the commit of the next run
C26_Witness ==
    /\ DOMAIN machine.transition_table # {}
    /\ prev_trace # None
    /\ simulator_state = INTERRUPTED
    /\ written # {}

\* C27: the phase becomes FINISHED only by an advance() taken in IDLE when
\* the table has no entry for (machine state, symbol under the head), it
\* becomes INTERRUPTED only by the interrupt key, and in every FINISHED
\* state the table has no entry for (machine state, symbol under the head).
C27_FinishedMeansCompleted ==
    /\ [](simulator_state = FINISHED => ~HasEntry)
    /\ [][/\ (simulator_state' = FINISHED /\ simulator_state # FINISHED) =>
                (IsStep /\ simulator_state = IDLE /\ ~HasEntry)
          /\ (simulator_state' = INTERRUPTED /\ simulator_state # INTERRUPTED) =>
                IsInterrupt]_vars

\* C27 witness: a run that committed a transition has finished by an
\* advance() taken in IDLE
C27_Witness ==
    /\ simulator_state = FINISHED
    /\ written # {}
    /\ DOMAIN machine.transition_table # {}
    /\ last_call.op = "step"
    /\ last_call.phase = IDLE

\* C28: in FOUND_TRANSITION the recorded transition has the condition
\* (machine state, symbol under the head) and the effect the table gives for
\* it; in CHANGED_STATE and MOVED the machine state is the new state of the
\* recorded effect and the recorded transition is still a pair of the table.
C28_CommittedIsLookedUp ==
    /\ simulator_state = FOUND_TRANSITION =>
          /\ transition # None
          /\ transition[1].condition = Condition(machine_state, TapeValue(tape, head_offset))
          /\ HasEntry
          /\ transition[1].effect = Entry
    /\ simulator_state \in {CHANGED_STATE, MOVED} =>
          /\ transition # None
          /\ machine_state = transition[1].effect.new_state
          /\ transition[1].condition \in DOMAIN machine.transition_table
          /\ transition[1].effect = machine.transition_table[transition[1].condition]

\* C28 witness: after the head move the cell under the head and the machine
\* state are no longer those of the recorded condition
C28_Witness ==
    /\ simulator_state = MOVED
    /\ transition # None
    /\ transition[1].condition # Condition(machine_state, TapeValue(tape, head_offset))
    /\ transition[1].condition.state # machine_state

\* The classical machine: a configuration is (state, head, cells), and one
\* step writes the entry's symbol under the head, takes the entry's state
\* and moves the head by the entry's action, -1, 0 or +1.
Configuration ==
    [machine_state |-> machine_state, head_offset |-> head_offset, cells |-> Cells(tape)]
ClassicalStep(c) ==
    LET entry == machine.transition_table[Condition(c.machine_state, c.cells[c.head_offset])]
    IN  [machine_state |-> entry.new_state,
         head_offset |-> c.head_offset + ActionValue(entry.action),
         cells |-> [c.cells EXCEPT ![c.head_offset] = entry.new_symbol]]

\* C29: seen in IDLE and FINISHED only, the engine is the classical
\* deterministic machine: the configuration at the return to IDLE is one
\* classical step from the configuration of the IDLE state the logical step
\* left, no IDLE or FINISHED state lies in between, and the advance() taken
\* in IDLE goes to FINISHED, the configuration unchanged, exactly when the
\* table has no entry for the configuration.
C29_RefinesClassical ==
    [][IsStep =>
         /\ simulator_state = IDLE =>
               /\ Configuration' = Configuration
               /\ (simulator_state' = FINISHED) <=> ~HasEntry
               /\ simulator_state' \in {FINISHED, FOUND_TRANSITION}
         /\ simulator_state \in {FOUND_TRANSITION, CHANGED_STATE} =>
               simulator_state' \in {CHANGED_STATE, MOVED}
         /\ simulator_state = MOVED =>
               /\ simulator_state' = IDLE
               /\ step_start # None
               /\ Configuration' =
                    ClassicalStep([machine_state |-> step_start[1].machine_state,
                                   head_offset |-> step_start[1].head_offset,
                                   cells |-> step_start[1].cells])]_vars

\* C29 witness: a logical step that changed the machine state and moved
\* the head has been completed, and the run has then finished on the
\* configuration it produced
C29_Witness ==
    /\ simulator_state = FINISHED
    /\ Len(trace) = 5
    /\ head_offset # 0
    /\ machine_state # machine.initial_state

\* the number of transitions the classical machine applies from c before it
\* reaches a (state, symbol) without entry; -1 when it applies more than
\* fuel or leaves the offsets -MaxHead .. MaxHead
RECURSIVE ClassicalTransitions(_, _)
ClassicalTransitions(c, fuel) ==
    IF Condition(c.machine_state, c.cells[c.head_offset]) \notin DOMAIN machine.transition_table
    THEN 0
    ELSE IF fuel = 0 \/ abs(ClassicalStep(c).head_offset) > MaxHead
    THEN -1
    ELSE LET rest == ClassicalTransitions(ClassicalStep(c), fuel - 1)
         IN  IF rest < 0 THEN -1 ELSE rest + 1

InitialConfiguration ==
    [machine_state |-> machine.initial_state, head_offset |-> 0,
     cells |-> Cells(TapeInit(input))]
Halting == ClassicalTransitions(InitialConfiguration, MaxTrace)

\* C30: when the machine applies exactly k transitions from the initial
\* configuration before it reaches a (state, symbol) without entry, the
\* uninterrupted engine is in FINISHED after exactly 4k + 1 advance() calls
\* and not before, each of these calls returns true, and the next call, the
\* one that ends the loop of run_simulation, returns false.
C30_HaltsAfter4kPlus1 ==
    /\ [](/\ simulator_state = FINISHED =>
               (Halting >= 0 /\ Len(trace) = 4 * Halting + 1)
          /\ (Halting >= 0 /\ Len(trace) = 4 * Halting + 1) =>
               simulator_state = FINISHED)
    /\ [][IsStep =>
            /\ simulator_state # FINISHED =>
                  (last_call'.ret = TRUE /\ Len(trace') = Len(trace) + 1)
            /\ simulator_state = FINISHED =>
                  (last_call'.ret = FALSE /\ Len(trace') = Len(trace))]_vars

\* C30 witness: one transition applied, five calls that returned true, and
\* the sixth call has returned false
C30_Witness ==
    /\ Halting = 1
    /\ Len(trace) = 5
    /\ simulator_state = FINISHED
    /\ last_call.op = "step"
    /\ last_call.phase = FINISHED
    /\ last_call.ret = FALSE

\* Model.is_after_the_first_move
is_after_the_first_move == last_move # None /\ last_head_offset # None

\* a head-move phase has been executed since the last reset(): one of the
\* advance() calls made since then left the phase at MOVED
MovedSinceReset == \E k \in 1 .. Len(trace) : trace[k][1] = MOVED

\* C31 (as claimed): is_after_the_first_move is true exactly when at least
\* one head-move phase has been executed since the last reset().
C31_AfterTheFirstMove == is_after_the_first_move <=> MovedSinceReset
====
